---- MODULE Spec2Model ----
(***************************************************************************)
(* A model of the owning-reference container of src/lib.rs: the erasure    *)
(* protocol (HasRefClass / RefClass), the SharedRef marker, the tuple      *)
(* implementations and the OwningRef lifecycle operations.                 *)
(*                                                                         *)
(* Types are modelled as data.  A reference is a record                    *)
(*   [k |-> "shared" | "excl", addr |-> a]      a &T or a &mut T           *)
(* an erased form (a RefClass value) is a record                           *)
(*   [k |-> "const" | "mut", addr |-> a]        a const or a mut raw ptr   *)
(* and a tuple of either is [k |-> "tuple", elems |-> <<...>>].            *)
(* The pointee type T of a pointer is TypeAt[addr].                        *)
(***************************************************************************)
EXTENDS Integers, Sequences, FiniteSets, TLC

VARIABLES pc, c, mem, dropLog, lastRef, lastOp, hist, base, ret, wrote

vars == <<pc, c, mem, dropLog, lastRef, lastOp, hist, base, ret, wrote>>

----------------------------------------------------------------------------
(* Bounds of the model *)

\* number of map / try_map calls made on one container
MaxMaps == 3
\* nesting depth of the tuples a transform may build
MaxDepth == 2
\* number of stack slots a container value can be moved between
NumSlots == 2
\* number of distinct error values a fallible transform can return
NumErrors == 2

(* Program constants *)

\* smallest and largest tuple arity tuple_impls! is invoked for
TupleMinArity == 1
TupleMaxArity == 16

----------------------------------------------------------------------------
(* The owners and the data they control *)

Addr == 0..8
Slots == 0..(NumSlots - 1)
Errors == 1..NumErrors

\* the type of the data at each heap address: is it Sized, and its tuple
\* arity (NotTuple for a type that is not a tuple)
NotTuple == 0 - 1
TypeAt ==
  [a \in Addr |->
     CASE a = 0 -> [sized |-> TRUE,  arity |-> NotTuple]   \* String
       [] a = 1 -> [sized |-> FALSE, arity |-> NotTuple]   \* str
       [] a = 2 -> [sized |-> TRUE,  arity |-> NotTuple]
       [] a = 3 -> [sized |-> TRUE,  arity |-> 2]          \* (X, Y)
       [] a = 4 -> [sized |-> TRUE,  arity |-> NotTuple]
       [] a = 5 -> [sized |-> TRUE,  arity |-> 1]          \* (Z,)
       [] OTHER -> [sized |-> FALSE, arity |-> NotTuple]]  \* str

\* Box<String>, Box<(X, Y)> and Rc<str>: each has a stable heap address, and
\* only the first two implement DerefMut
Owners ==
  { [id |-> 1, heap |-> 0, derefMut |-> TRUE],
    [id |-> 2, heap |-> 3, derefMut |-> TRUE],
    [id |-> 3, heap |-> 6, derefMut |-> FALSE] }

\* the two parts of the data at a root address (fields, or sub-slices)
HasParts(a) == a \in {0, 3, 6}
Part(a, i) == a + i

\* the address of a stack slot holding the container value
StackAddr(loc) == 100 + loc

\* StableDeref: the address of *owner does not depend on where owner lives
DerefAddr(owner, loc) == owner.heap

InitMem == [a \in Addr |-> 0]

----------------------------------------------------------------------------
(* The erasure protocol *)

IsTuple(x) == x.k = "tuple"

MkTuple(es) == [k |-> "tuple", elems |-> es]

MaxOf(S) == CHOOSE m \in S : \A n \in S : n <= m

\* nesting depth of a form: 0 for a single pointer or reference
RECURSIVE Depth(_)
Depth(x) ==
  IF ~IsTuple(x) THEN 0
  ELSE 1 + MaxOf({0} \cup {Depth(x.elems[i]) : i \in 1..Len(x.elems)})

\* the leaves of a form, left to right
RECURSIVE Leaves(_)
Leaves(x) ==
  IF ~IsTuple(x) THEN <<x>>
  ELSE IF x.elems = <<>> THEN <<>>
  ELSE Leaves(x.elems[1]) \o Leaves(MkTuple(Tail(x.elems)))

\* into_class with the slots of a tuple rebuilt in the opposite order
RECURSIVE IntoClassReversed(_)
IntoClassReversed(r) ==
  IF IsTuple(r)
    THEN MkTuple([i \in 1..Len(r.elems) |->
                    IntoClassReversed(r.elems[Len(r.elems) + 1 - i])])
    ELSE IF r.k = "excl" THEN [k |-> "mut", addr |-> r.addr]
                         ELSE [k |-> "const", addr |-> r.addr]

\* HasRefClass::into_class
RECURSIVE IntoClass(_)
IntoClass(r) ==
  IF IsTuple(r)
    THEN MkTuple([i \in 1..Len(r.elems) |-> IntoClass(r.elems[i])])
    ELSE IF r.k = "excl" THEN [k |-> "mut", addr |-> r.addr]
                         ELSE [k |-> "const", addr |-> r.addr]

\* reborrow_mut that turns every pointer into an exclusive reference
RECURSIVE ReborrowMutAlways(_)
ReborrowMutAlways(e) ==
  IF IsTuple(e)
    THEN MkTuple([i \in 1..Len(e.elems) |-> ReborrowMutAlways(e.elems[i])])
    ELSE [k |-> "excl", addr |-> e.addr]

\* RefClass::reborrow_mut
RECURSIVE ReborrowMut(_)
ReborrowMut(e) ==
  IF IsTuple(e)
    THEN MkTuple([i \in 1..Len(e.elems) |-> ReborrowMut(e.elems[i])])
    ELSE IF e.k = "mut" THEN [k |-> "excl", addr |-> e.addr]
                        ELSE [k |-> "shared", addr |-> e.addr]

\* reborrow_const that keeps the mutability of the pointer
RECURSIVE ReborrowConstKeep(_)
ReborrowConstKeep(e) ==
  IF IsTuple(e)
    THEN MkTuple([i \in 1..Len(e.elems) |-> ReborrowConstKeep(e.elems[i])])
    ELSE IF e.k = "mut" THEN [k |-> "excl", addr |-> e.addr]
                        ELSE [k |-> "shared", addr |-> e.addr]

\* RefClass::reborrow_const
RECURSIVE ReborrowConst(_)
ReborrowConst(e) ==
  IF IsTuple(e)
    THEN MkTuple([i \in 1..Len(e.elems) |-> ReborrowConst(e.elems[i])])
    ELSE [k |-> "shared", addr |-> e.addr]

\* the SharedRef marker: which erased forms implement it
SharedRef(e) ==
  IF IsTuple(e) THEN FALSE
  ELSE \/ e.k = "const" /\ TypeAt[e.addr].sized
       \/ /\ e.k = "mut"
          /\ TypeAt[e.addr].arity \in TupleMinArity..TupleMaxArity

----------------------------------------------------------------------------
(* Transforms: the functions a caller passes to map and try_map *)

Prims == {"id", "fst", "snd", "narrow", "split", "splitmix", "proj1",
          "proj2", "nest"}

\* does the transform accept a reference of this type
Applicable(p, r) ==
  CASE p = "id"       -> TRUE
    [] p = "fst"      -> ~IsTuple(r) /\ HasParts(r.addr)
    [] p = "snd"      -> ~IsTuple(r) /\ HasParts(r.addr)
    [] p = "narrow"   -> ~IsTuple(r) /\ r.k = "excl"
    [] p = "split"    -> ~IsTuple(r) /\ HasParts(r.addr)
    [] p = "splitmix" -> ~IsTuple(r) /\ HasParts(r.addr) /\ r.k = "excl"
    [] p = "proj1"    -> IsTuple(r) /\ Len(r.elems) >= 1
    [] p = "proj2"    -> IsTuple(r) /\ Len(r.elems) >= 2
    [] p = "nest"     -> Depth(r) < MaxDepth
    [] OTHER          -> FALSE

\* the reference the transform returns
CallPrim(p, r) ==
  CASE p = "id"       -> r
    [] p = "fst"      -> [k |-> r.k, addr |-> Part(r.addr, 1)]
    [] p = "snd"      -> [k |-> r.k, addr |-> Part(r.addr, 2)]
    [] p = "narrow"   -> [k |-> "shared", addr |-> r.addr]
    [] p = "split"    -> MkTuple(<<[k |-> r.k, addr |-> Part(r.addr, 1)],
                                   [k |-> r.k, addr |-> Part(r.addr, 2)]>>)
    [] p = "splitmix" -> MkTuple(<<[k |-> "excl", addr |-> Part(r.addr, 1)],
                                   [k |-> "shared", addr |-> Part(r.addr, 2)]>>)
    [] p = "proj1"    -> r.elems[1]
    [] p = "proj2"    -> r.elems[2]
    [] p = "nest"     -> MkTuple(<<r>>)

\* MapFunc::call for a transform given as a composition of primitive steps,
\* applied left to right
RECURSIVE Call(_, _)
Call(f, r) ==
  IF f = <<>> THEN r ELSE Call(Tail(f), CallPrim(Head(f), r))

RECURSIVE Accepts(_, _)
Accepts(f, r) ==
  IF f = <<>> THEN TRUE
  ELSE Applicable(Head(f), r) /\ Accepts(Tail(f), CallPrim(Head(f), r))

----------------------------------------------------------------------------
(* Destruction *)

\* the fields of struct OwningRef in declaration order, with their wrappers
StructFields ==
  << [name |-> "owner",  wrapper |-> "ManuallyDrop"],
     [name |-> "borrow", wrapper |-> "ManuallyDrop"] >>

\* what the drop glue of a field destroys: nothing under ManuallyDrop
FieldDrop(fld) == IF fld.wrapper = "ManuallyDrop" THEN <<>> ELSE <<fld.name>>

\* what dropping an OwningRef value destroys: the type has no Drop impl, so
\* only the drop glue of its fields runs, in declaration order
RECURSIVE DropGlue(_)
DropGlue(flds) ==
  IF flds = <<>> THEN <<>> ELSE FieldDrop(Head(flds)) \o DropGlue(Tail(flds))

\* map and try_map with the owner left inside its ManuallyDrop while f runs
MapLocalsOwnerWrapped == <<"borrow">>

\* the locals of map and try_map that own a value while f runs, in
\* declaration order; self has been passed to mem::forget
MapLocals == <<"owner", "borrow">>

\* locals are destroyed in reverse declaration order when the function is
\* left by a panic or an early return
RECURSIVE Unwind(_)
Unwind(locals) ==
  IF locals = <<>> THEN <<>>
  ELSE Unwind(Tail(locals)) \o <<Head(locals)>>

\* into_owner that also runs ManuallyDrop::drop on the owner
IntoOwnerDropsBoth == <<"borrow", "owner">>

\* what into_owner destroys explicitly before it returns the owner
IntoOwnerDrops == <<"borrow">>

----------------------------------------------------------------------------
(* State *)

NoContainer == [live |-> FALSE]
NoRef == [op |-> "none"]
NoOp == [kind |-> "none"]
NoRet == [kind |-> "none"]

Init ==
  /\ pc = "none"
  /\ c = NoContainer
  /\ mem = InitMem
  /\ dropLog = <<>>
  /\ lastRef = NoRef
  /\ lastOp = NoOp
  /\ hist = <<>>
  /\ base = NoContainer
  /\ ret = NoRet
  /\ wrote = FALSE

Container(owner, borrow, ctor) ==
  [live |-> TRUE, owner |-> owner, borrow |-> borrow, loc |-> 0,
   ctor |-> ctor]

\* new that stores the address of the owner value instead of its dereference
NewPtrToOwner(owner, loc) == [k |-> "mut", addr |-> StackAddr(loc)]

\* the pointer OwningRef::new stores
NewPtr(owner, loc) == [k |-> "mut", addr |-> DerefAddr(owner, loc)]

\* the pointer OwningRef::new_shared stores
NewSharedPtr(owner, loc) == [k |-> "const", addr |-> DerefAddr(owner, loc)]

Constructed(con) ==
  /\ pc' = "live"
  /\ c' = con
  /\ base' = con
  /\ UNCHANGED <<mem, dropLog, lastRef, lastOp, hist, ret, wrote>>

New ==
  /\ pc = "none"
  /\ \E owner \in Owners :
       /\ owner.derefMut
       /\ Constructed(Container(owner, NewPtr(owner, 0), "new"))

NewShared ==
  /\ pc = "none"
  /\ \E owner \in Owners :
       Constructed(Container(owner, NewSharedPtr(owner, 0), "new_shared"))

\* new_raw with an init function that upholds the contract: it derives its
\* result from the owner's dereference
NewRaw ==
  /\ pc = "none"
  /\ \E owner \in Owners, p \in Prims :
       LET r == [k |-> IF owner.derefMut THEN "excl" ELSE "shared",
                 addr |-> DerefAddr(owner, 0)]
       IN /\ Applicable(p, r)
          /\ Constructed(Container(owner, IntoClass(CallPrim(p, r)),
                                   "new_raw"))

\* the container value is moved to another stack slot
Move ==
  /\ pc = "live"
  /\ \E l \in Slots :
       /\ l # c.loc
       /\ c' = [c EXCEPT !.loc = l]
  /\ UNCHANGED <<pc, mem, dropLog, lastRef, lastOp, hist, base, ret, wrote>>

\* the container map returns when f returns normally
MapResult(con, f) ==
  LET owner == con.owner
      borrow == con.borrow
  IN [con EXCEPT !.owner = owner,
                 !.borrow = IntoClass(Call(f, ReborrowMut(borrow)))]

\* try_map that repackages the pointer it took out of self
TryMapResultStale(con, f) == con

\* the container try_map returns when f returns Ok
TryMapResult(con, f) ==
  LET owner == con.owner
      borrow == con.borrow
  IN [con EXCEPT !.owner = owner,
                 !.borrow = IntoClass(Call(f, ReborrowMut(borrow)))]

\* the ? operator on an Err(e) of the function's own error type
QuestionMark(e) == [kind |-> "err", err |-> e]

Map ==
  /\ pc = "live"
  /\ Len(hist) < MaxMaps
  /\ \E p \in Prims, outcome \in {"ok", "panic"} :
       /\ Applicable(p, ReborrowMut(c.borrow))
       /\ lastRef' = [op |-> "map", from |-> c.borrow,
                      ref |-> ReborrowMut(c.borrow)]
       /\ lastOp' = [kind |-> "map", outcome |-> outcome, pre |-> c,
                     f |-> <<p>>]
       /\ IF outcome = "ok"
            THEN /\ c' = MapResult(c, <<p>>)
                 /\ hist' = Append(hist, p)
                 /\ UNCHANGED <<pc, dropLog, ret>>
            ELSE /\ c' = NoContainer
                 /\ pc' = "panicked"
                 /\ dropLog' = dropLog \o Unwind(MapLocals)
                 /\ ret' = [kind |-> "panic"]
                 /\ UNCHANGED hist
  /\ UNCHANGED <<mem, base, wrote>>

TryMap ==
  /\ pc = "live"
  /\ Len(hist) < MaxMaps
  /\ \E p \in Prims, outcome \in {"ok", "err", "panic"}, e \in Errors :
       /\ Applicable(p, ReborrowMut(c.borrow))
       /\ lastRef' = [op |-> "try_map", from |-> c.borrow,
                      ref |-> ReborrowMut(c.borrow)]
       /\ lastOp' = [kind |-> "try_map", outcome |-> outcome, pre |-> c,
                     f |-> <<p>>, err |-> IF outcome = "err" THEN e ELSE 0]
       /\ CASE outcome = "ok" ->
                 /\ c' = TryMapResult(c, <<p>>)
                 /\ hist' = Append(hist, p)
                 /\ UNCHANGED <<pc, dropLog, ret>>
            [] outcome = "err" ->
                 /\ c' = NoContainer
                 /\ pc' = "failed"
                 /\ dropLog' = dropLog \o Unwind(MapLocals)
                 /\ ret' = QuestionMark(e)
                 /\ UNCHANGED hist
            [] outcome = "panic" ->
                 /\ c' = NoContainer
                 /\ pc' = "panicked"
                 /\ dropLog' = dropLog \o Unwind(MapLocals)
                 /\ ret' = [kind |-> "panic"]
                 /\ UNCHANGED hist
  /\ UNCHANGED <<mem, base, wrote>>

Borrow ==
  /\ pc = "live"
  /\ lastRef' = [op |-> "borrow", from |-> c.borrow,
                 ref |-> ReborrowConst(c.borrow)]
  /\ UNCHANGED <<pc, c, mem, dropLog, lastOp, hist, base, ret, wrote>>

\* the addresses a reference allows writing to
WritableAddrs(r) ==
  {Leaves(r)[i].addr : i \in {j \in 1..Len(Leaves(r)) : Leaves(r)[j].k = "excl"}}

\* borrow_mut; the caller may write through an exclusive reference it gets
BorrowMut ==
  /\ pc = "live"
  /\ LET r == ReborrowMut(c.borrow)
     IN /\ lastRef' = [op |-> "borrow_mut", from |-> c.borrow, ref |-> r]
        /\ \/ UNCHANGED <<mem, wrote>>
           \/ \E a \in WritableAddrs(r) :
                /\ mem[a] = 0
                /\ mem' = [mem EXCEPT ![a] = 1]
                /\ wrote' = TRUE
  /\ UNCHANGED <<pc, c, dropLog, lastOp, hist, base, ret>>

IntoOwner ==
  /\ pc = "live"
  /\ dropLog' = dropLog \o IntoOwnerDrops
  /\ ret' = [kind |-> "owner", owner |-> c.owner]
  /\ c' = NoContainer
  /\ pc' = "extracted"
  /\ UNCHANGED <<mem, lastRef, lastOp, hist, base, wrote>>

\* as_owner exists only where T: SharedRef
AsOwner ==
  /\ pc = "live"
  /\ SharedRef(c.borrow)
  /\ lastRef' = [op |-> "as_owner", from |-> c.borrow,
                 ref |-> [k |-> "shared", addr |-> StackAddr(c.loc)]]
  /\ UNCHANGED <<pc, c, mem, dropLog, lastOp, hist, base, ret, wrote>>

\* the container goes out of scope
DropContainer ==
  /\ pc = "live"
  /\ dropLog' = dropLog \o DropGlue(StructFields)
  /\ c' = NoContainer
  /\ pc' = "dropped"
  /\ ret' = NoRet
  /\ UNCHANGED <<mem, lastRef, lastOp, hist, base, wrote>>

Next ==
  \/ New
  \/ NewShared
  \/ NewRaw
  \/ Move
  \/ Map
  \/ TryMap
  \/ Borrow
  \/ BorrowMut
  \/ IntoOwner
  \/ AsOwner
  \/ DropContainer

Spec == Init /\ [][Next]_vars

----------------------------------------------------------------------------
(* Properties *)

\* every leaf of an erased form was derived under Shared access
AllSharedOrigin(e) ==
  \A i \in 1..Len(Leaves(e)) : Leaves(e)[i].k = "const"

\* some leaf of a reference is exclusive
HasExclusive(r) ==
  \E i \in 1..Len(Leaves(r)) : Leaves(r)[i].k = "excl"

Count(log, x) == Cardinality({i \in 1..Len(log) : log[i] = x})

\* C1: as_owner hands out a reference to the owner only from a container
\* whose erased reference has no Exclusive-origin part.
C1_AsOwnerOnlyForShared ==
  lastRef.op = "as_owner" => AllSharedOrigin(lastRef.from)

C3_TeardownDestroysOwner ==
  /\ pc = "dropped" => dropLog = <<"borrow", "owner">>
  /\ pc \in {"dropped", "failed", "panicked", "extracted"} =>
       IF ret.kind = "owner" THEN Count(dropLog, "owner") = 0
                             ELSE Count(dropLog, "owner") = 1

\* C4: when f panics inside map or try_map the erased reference is released,
\* then the owner is destroyed, exactly once, and there is no container.
C4_PanicDestroysOwnerOnce ==
  pc = "panicked" =>
    /\ dropLog = <<"borrow", "owner">>
    /\ Count(dropLog, "owner") = 1
    /\ c = NoContainer
    /\ ret.kind = "panic"

C4_Witness ==
  /\ pc = "panicked"
  /\ lastOp.kind = "map"
  /\ Len(hist) >= 1

\* C5: a try_map whose f returns Ok leaves the container map would have
\* left; one whose f returns Err(e) leaves no container, has destroyed the
\* erased reference and then the owner, once, and returns Err(e).
C5_TryMapOutcomes ==
  /\ (pc = "live" /\ lastOp.kind = "try_map") =>
       /\ lastOp.outcome = "ok"
       /\ c.owner = MapResult(lastOp.pre, lastOp.f).owner
       /\ c.borrow = MapResult(lastOp.pre, lastOp.f).borrow
       /\ c.owner = lastOp.pre.owner
  /\ pc = "failed" =>
       /\ lastOp.kind = "try_map"
       /\ c = NoContainer
       /\ dropLog = <<"borrow", "owner">>
       /\ ret = [kind |-> "err", err |-> lastOp.err]

C5_Witness ==
  /\ pc = "failed"
  /\ Len(hist) >= 1
  /\ lastOp.pre.borrow = MapResult(base, hist).borrow
  /\ ret.err = NumErrors

\* C6: map leaves the owner of the container untouched, and into_owner
\* returns the owner the container was built with, not destroyed, after
\* releasing the erased reference; if nothing wrote through a reference the
\* owned data is as it was.
C6_IntoOwnerReturnsOriginal ==
  /\ pc = "live" => c.owner = base.owner
  /\ pc = "extracted" =>
       /\ ret = [kind |-> "owner", owner |-> base.owner]
       /\ dropLog = <<"borrow">>
       /\ c = NoContainer
       /\ (~wrote => mem = InitMem)

C6_Witness ==
  /\ pc = "extracted"
  /\ Len(hist) >= 2
  /\ ~wrote

\* C7: mapping step by step and mapping once with the composed transform
\* give containers with the same owner whose borrow results are equal, for
\* every way of cutting the steps taken so far into a container to start
\* from and a transform to compose.
C7_MapCompositional ==
  (pc = "live" /\ Len(hist) >= 2) =>
    \A k \in 0..(Len(hist) - 2) :
      LET from == MapResult(base, SubSeq(hist, 1, k))
          once == MapResult(from, SubSeq(hist, k + 1, Len(hist)))
      IN /\ Accepts(SubSeq(hist, k + 1, Len(hist)), ReborrowMut(from.borrow))
         /\ once.owner = c.owner
         /\ ReborrowConst(once.borrow) = ReborrowConst(c.borrow)

C7_Witness ==
  /\ pc = "live"
  /\ hist = <<"split", "proj2", "nest">>

\* C8: borrowing from a container built by new or new_shared, before any
\* map, gives a shared reference to the owner's dereference, wherever the
\* container has been moved to.
C8_ConstructThenBorrow ==
  (/\ pc = "live"
   /\ lastRef.op = "borrow"
   /\ hist = <<>>
   /\ c.ctor \in {"new", "new_shared"}) =>
    /\ lastRef.ref = [k |-> "shared", addr |-> DerefAddr(c.owner, c.loc)]
    /\ ReborrowConst(c.borrow) = lastRef.ref

C8_Witness ==
  /\ pc = "live"
  /\ lastRef.op = "borrow"
  /\ hist = <<>>
  /\ c.ctor = "new"
  /\ c.loc # 0

\* C9: an erased form carries the SharedRef marker exactly when every part
\* of it, through tuples, was derived under Shared access.
C9_MarkerIffAllShared ==
  pc = "live" => (SharedRef(c.borrow) <=> AllSharedOrigin(c.borrow))

\* C10: slot by slot, the reference an operation hands out points where
\* the erased form does; a Shared-origin slot always comes back Shared;
\* borrow gives Shared for every slot; an Exclusive-origin slot comes back
\* Exclusive from, and only from, borrow_mut, map and try_map.
C10_Reconstitution ==
  lastRef.op \in {"borrow", "borrow_mut", "map", "try_map"} =>
    LET es == Leaves(lastRef.from)
        rs == Leaves(lastRef.ref)
    IN /\ Len(es) = Len(rs)
       /\ \A i \in 1..Len(es) :
            /\ rs[i].addr = es[i].addr
            /\ es[i].k = "const" => rs[i].k = "shared"
            /\ lastRef.op = "borrow" => rs[i].k = "shared"
            /\ (es[i].k = "mut" /\ lastRef.op # "borrow") => rs[i].k = "excl"

C10_Witness ==
  /\ lastRef.op = "borrow"
  /\ \E i \in 1..Len(Leaves(lastRef.from)) : Leaves(lastRef.from)[i].k = "mut"
  /\ \E i \in 1..Len(Leaves(lastRef.from)) : Leaves(lastRef.from)[i].k = "const"

====
